---- MODULE Spec2Model ----
(***************************************************************************)
(* jrpc: the JSON-RPC 2.0 data types of src/src/lib.rs, their serde codecs *)
(* (src/src/serialize.rs) and the diagnostic decoder of Response           *)
(* (src/src/from_string.rs), as pure functions over JSON texts.            *)
(*                                                                         *)
(* A JSON text is either NotJson (no JSON value at all) or a JSON value as *)
(* written: an object is the sequence of its "key": value members in the   *)
(* order written, duplicate keys included.  serde_json::Value is the same  *)
(* tree with every object reduced to one member per key (the last one).    *)
(***************************************************************************)
EXTENDS Integers, Sequences, FiniteSets, TLC

VARIABLES text, arg, ty, pc, ret

vars == <<text, arg, ty, pc, ret>>

(***************************************************************************)
(* Bounds.  IntBits stands for the 64 bits of i64/u64: the model keeps the *)
(* two's complement ranges at a width TLC can count in.                    *)
(***************************************************************************)
IntBits == 20

(* the small integers tried as ids, results and error codes: -MaxInt..MaxInt *)
MaxInt == 2

I64_MAX == 2^(IntBits - 1) - 1
I64_MIN == -(2^(IntBits - 1))
U64_MAX == 2^IntBits - 1

(***************************************************************************)
(* JSON values as written.                                                 *)
(***************************************************************************)
NotJson == [k |-> "NotJson"]
None == [k |-> "None"]

JNull == [k |-> "Null"]
JBool(b) == [k |-> "Bool", b |-> b]
JString(s) == [k |-> "String", s |-> s]
JInt(n) == [k |-> "Number", lit |-> "int", v |-> n]
JFloat(f) == [k |-> "Number", lit |-> "float", f |-> f]
JArray(a) == [k |-> "Array", a |-> a]
JObject(p) == [k |-> "Object", p |-> p]

(* Result<T, E> of a decode: the decoded value, or a serde error. *)
Ok(v) == [ok |-> TRUE, v |-> v]
Err == [ok |-> FALSE]

(* Option<T> *)
OptNone == [some |-> FALSE]
Some(v) == [some |-> TRUE, v |-> v]

KeysOf(p) == {p[i][1] : i \in DOMAIN p}
Count(p, key) == Cardinality({i \in DOMAIN p : p[i][1] = key})
Get(p, key) == p[CHOOSE i \in DOMAIN p : p[i][1] = key][2]

(***************************************************************************)
(* The number a JSON integer literal parses to (serde_json): a literal     *)
(* without sign that fits u64 is PosInt, a negative one that fits i64 is   *)
(* NegInt, every other one (and every literal with a fraction) is Float.   *)
(***************************************************************************)
N(w) ==
    IF w.lit = "float" THEN "Float"
    ELSE IF w.v >= 0 THEN (IF w.v <= U64_MAX THEN "PosInt" ELSE "Float")
    ELSE (IF w.v >= I64_MIN THEN "NegInt" ELSE "Float")

is_i64(w) ==
    CASE N(w) = "PosInt" -> w.v <= I64_MAX
      [] N(w) = "NegInt" -> TRUE
      [] OTHER -> FALSE

(***************************************************************************)
(* serde_json::from_str::<Value>: the tree of the text; an object keeps,   *)
(* for a key written twice, the member written last.                       *)
(***************************************************************************)
RECURSIVE ToValue(_)
ToValue(w) ==
    CASE w.k = "Array" -> JArray([i \in DOMAIN w.a |-> ToValue(w.a[i])])
      [] w.k = "Object" ->
            LET last(i) == \A j \in DOMAIN w.p : j > i => w.p[j][1] # w.p[i][1]
                idx == SelectSeq([i \in DOMAIN w.p |-> i], last)
            IN  JObject([n \in DOMAIN idx |-> <<w.p[idx[n]][1], ToValue(w.p[idx[n]][2])>>])
      [] OTHER -> w

(***************************************************************************)
(* Typed values.                                                           *)
(***************************************************************************)
V2_0 == [V2_0 |-> "2.0"]
Str(s) == [String |-> s]
I64(n) == [i64 |-> n]

(* enum Id { String(String), Int(i64), Null } *)
Id_String(s) == [Id |-> "String", s |-> s]
Id_Int(i) == [Id |-> "Int", i |-> i]
Id_Null == [Id |-> "Null"]

(* enum IdReq { String(String), Int(i64), Null, Notification } *)
IdReq_String(s) == [IdReq |-> "String", s |-> s]
IdReq_Int(i) == [IdReq |-> "Int", i |-> i]
IdReq_Null == [IdReq |-> "Null"]
IdReq_Notification == [IdReq |-> "Notification"]

(* impl From<Id> for IdReq *)
IdReq_from(id) ==
    CASE id.Id = "String" -> IdReq_String(id.s)
      [] id.Id = "Int" -> IdReq_Int(id.i)
      [] id.Id = "Null" -> IdReq_Null

(* IdReq::to_id: None for a Notification. *)
to_id_AlwaysNone(self) == OptNone

to_id(self) ==
    CASE self.IdReq = "String" -> Some(Id_String(self.s))
      [] self.IdReq = "Int" -> Some(Id_Int(self.i))
      [] self.IdReq = "Null" -> Some(Id_Null)
      [] self.IdReq = "Notification" -> OptNone

unwrap_or(opt, dflt) == IF opt.some THEN opt.v ELSE dflt

(* the default of Request::id, and of ErrorObject::data *)
notification == IdReq_Notification
default_t == OptNone

id_req_is_notification_Never(id) == FALSE

id_req_is_notification(id) ==
    CASE id.IdReq = "Notification" -> TRUE
      [] OTHER -> FALSE

(***************************************************************************)
(* enum ErrorCode and its numeric mapping.                                 *)
(***************************************************************************)
ParseError == [code |-> "ParseError"]
InvalidRequest == [code |-> "InvalidRequest"]
MethodNotFound == [code |-> "MethodNotFound"]
InvalidParams == [code |-> "InvalidParams"]
InternalError == [code |-> "InternalError"]
ServerError(n) == [code |-> "ServerError", n |-> n]

(* impl From<i64> for ErrorCode *)
ErrorCode_from(v) ==
    CASE v = -32700 -> ParseError
      [] v = -32600 -> InvalidRequest
      [] v = -32601 -> MethodNotFound
      [] v = -32602 -> InvalidParams
      [] v = -32603 -> InternalError
      [] OTHER -> ServerError(v)

(* impl Serialize for ErrorCode: the i64 handed to serialize_i64 *)
ErrorCode_value(self) ==
    CASE self.code = "ParseError" -> -32700
      [] self.code = "InvalidRequest" -> -32600
      [] self.code = "MethodNotFound" -> -32601
      [] self.code = "InvalidParams" -> -32602
      [] self.code = "InternalError" -> -32603
      [] self.code = "ServerError" -> self.n

(* ErrorCode::is_valid *)
is_valid_ExclusiveEnd(self) ==
    CASE self.code = "ServerError" -> (-32099 <= self.n) /\ (self.n < -32000)
      [] OTHER -> TRUE

is_valid(self) ==
    CASE self.code = "ServerError" -> (-32099 <= self.n) /\ (self.n <= -32000)
      [] OTHER -> TRUE

(***************************************************************************)
(* Types, as the type parameters and fields of the source name them.       *)
(***************************************************************************)
T_Value == [t |-> "Value"]
T_String == [t |-> "String"]
T_i64 == [t |-> "i64"]
T_V2_0 == [t |-> "V2_0"]
T_Id == [t |-> "Id"]
T_IdReq == [t |-> "IdReq"]
T_ErrorCode == [t |-> "ErrorCode"]
T_Method == [t |-> "Method"]
T_Option(T) == [t |-> "Option", of |-> T]
T_Request(M, T) == [t |-> "Request", M |-> M, T |-> T]
T_Success(T) == [t |-> "Success", T |-> T]
T_ErrorObject(T) == [t |-> "ErrorObject", T |-> T]
T_Error(T) == [t |-> "Error", T |-> T]
T_Response(T) == [t |-> "Response", T |-> T]

(* a struct field: with no #[serde(default)], or with the default's value *)
Field(name, T) == [name |-> name, ty |-> T, dflt |-> OptNone]
FieldDefault(name, T, d) == [name |-> name, ty |-> T, dflt |-> Some(d)]

(* struct Request<M, T> *)
Request_fields(M, T) ==
    << Field("jsonrpc", T_V2_0),
       Field("method", M),
       FieldDefault("params", T_Option(T), OptNone),
       FieldDefault("id", T_IdReq, notification) >>

(* struct Success<T> *)
Success_fields(T) ==
    << Field("jsonrpc", T_V2_0), Field("result", T), Field("id", T_Id) >>

(* struct Error<T> *)
Error_fields(T) ==
    << Field("jsonrpc", T_V2_0), Field("error", T_ErrorObject(T)), Field("id", T_Id) >>

(* struct ErrorObject<T> *)
ErrorObject_fields(T) ==
    << Field("code", T_ErrorCode),
       Field("message", T_String),
       FieldDefault("data", T_Option(T), default_t) >>

fields(T) ==
    CASE T.t = "Request" -> Request_fields(T.M, T.T)
      [] T.t = "Success" -> Success_fields(T.T)
      [] T.t = "Error" -> Error_fields(T.T)
      [] T.t = "ErrorObject" -> ErrorObject_fields(T.T)

(* #[serde(deny_unknown_fields)] *)
deny_unknown_fields_Nowhere(T) == FALSE

deny_unknown_fields(T) == T.t \in {"Success", "Error"}

(* enum IdReq, enum Id: the variants in the order #[serde(untagged)] tries them *)
IdReq_variants_NotificationFirst == <<"String", "Int", "Notification", "Null">>

IdReq_variants == <<"String", "Int", "Null", "Notification">>

Id_variants == <<"String", "Int", "Null">>

(* enum Response<T> { Ok(Success<T>), Err(Error<Value>) }, untagged *)
Response_variants_ErrorOfT(T) ==
    << [tag |-> "Ok", ty |-> T_Success(T)], [tag |-> "Err", ty |-> T_Error(T)] >>

Response_variants(T) ==
    << [tag |-> "Ok", ty |-> T_Success(T)], [tag |-> "Err", ty |-> T_Error(T_Value)] >>

(***************************************************************************)
(* Deserializers.                                                          *)
(***************************************************************************)

(* serde's i64: visit_u64 takes a value that fits i64, visit_i64 any,      *)
(* visit_f64 none                                                          *)
deserialize_i64_Wrapping(w) ==
    IF w.k # "Number" THEN Err
    ELSE CASE N(w) = "PosInt" ->
                Ok(I64(IF w.v <= I64_MAX THEN w.v ELSE w.v - 2^IntBits))
           [] N(w) = "NegInt" -> Ok(I64(w.v))
           [] OTHER -> Err

deserialize_i64(w) ==
    IF w.k # "Number" THEN Err
    ELSE CASE N(w) = "PosInt" -> IF w.v <= I64_MAX THEN Ok(I64(w.v)) ELSE Err
           [] N(w) = "NegInt" -> Ok(I64(w.v))
           [] OTHER -> Err

(* V2_0Visitor::visit_str, reached through deserialize_str *)
V2_0_deserialize_AnyString(w) ==
    IF w.k = "String" THEN Ok(V2_0) ELSE Err

V2_0_deserialize(w) ==
    IF w.k = "String" /\ w.s = "2.0" THEN Ok(V2_0) ELSE Err

(* ErrorCodeVisitor, reached through deserialize_i64: it defines visit_i64 *)
(* alone, and serde_json hands a literal without sign to visit_u64 and one *)
(* with a fraction to visit_f64, which the Visitor trait answers with an   *)
(* invalid-type error                                                      *)
ErrorCode_deserialize(w) ==
    IF w.k # "Number" THEN Err
    ELSE CASE N(w) = "NegInt" -> Ok(ErrorCode_from(w.v))
           [] OTHER -> Err

(* enum Method { One, Two } of the parse_request documentation *)
Method_variants == {"One", "Two"}

Method_deserialize(w) ==
    CASE w.k = "String" ->
            IF w.s \in Method_variants THEN Ok([Method |-> w.s]) ELSE Err
      [] w.k = "Object" ->
            IF Len(w.p) = 1 /\ w.p[1][1] \in Method_variants /\ w.p[1][2].k = "Null"
            THEN Ok([Method |-> w.p[1][1]]) ELSE Err
      [] OTHER -> Err

Id_variant(variant, w) ==
    CASE variant = "String" -> IF w.k = "String" THEN Ok(Id_String(w.s)) ELSE Err
      [] variant = "Int" ->
            LET i == deserialize_i64(w) IN IF i.ok THEN Ok(Id_Int(i.v.i64)) ELSE Err
      [] variant = "Null" -> IF w.k = "Null" THEN Ok(Id_Null) ELSE Err

IdReq_variant(variant, w) ==
    CASE variant = "String" -> IF w.k = "String" THEN Ok(IdReq_String(w.s)) ELSE Err
      [] variant = "Int" ->
            LET i == deserialize_i64(w) IN IF i.ok THEN Ok(IdReq_Int(i.v.i64)) ELSE Err
      [] variant = "Null" -> IF w.k = "Null" THEN Ok(IdReq_Null) ELSE Err
      [] variant = "Notification" -> IF w.k = "Null" THEN Ok(IdReq_Notification) ELSE Err

(* #[serde(untagged)]: of the results of decoding the value as each variant, *)
(* in order, the first that is no error                                     *)
untagged(results) ==
    LET hits == {i \in DOMAIN results : results[i].ok}
    IN  IF hits = {} THEN Err
        ELSE results[CHOOSE i \in hits : \A j \in hits : i <= j]

(* serde's missing_field: only an Option decodes from a field that is absent *)
missing_field(T) == IF T.t = "Option" THEN Ok(OptNone) ELSE Err

RECURSIVE Deserialize(_, _)
RECURSIVE deserialize_struct(_, _)

(* #[derive(Deserialize)] of a struct: from an object by key (a key of the *)
(* struct written twice is an error, an unknown key is skipped unless      *)
(* denied), from an array by position                                      *)
deserialize_struct(T, w) ==
    LET fs == fields(T)
        names == {fs[i].name : i \in DOMAIN fs}
        ix(n) == CHOOSE i \in DOMAIN fs : fs[i].name = n
    IN  CASE w.k = "Object" ->
                LET member(f) ==
                        IF Count(w.p, f.name) = 0
                        THEN (IF f.dflt.some THEN Ok(f.dflt.v) ELSE missing_field(f.ty))
                        ELSE Deserialize(f.ty, Get(w.p, f.name))
                IN  IF \/ deny_unknown_fields(T) /\ ~(KeysOf(w.p) \subseteq names)
                       \/ \E i \in DOMAIN fs : Count(w.p, fs[i].name) > 1
                       \/ \E i \in DOMAIN fs : ~member(fs[i]).ok
                    THEN Err
                    ELSE Ok([n \in names |-> member(fs[ix(n)]).v])
          [] w.k = "Array" ->
                LET element(i) ==
                        IF i <= Len(w.a) THEN Deserialize(fs[i].ty, w.a[i])
                        ELSE IF fs[i].dflt.some THEN Ok(fs[i].dflt.v) ELSE Err
                IN  IF \/ Len(w.a) > Len(fs)
                       \/ \E i \in DOMAIN fs : ~element(i).ok
                    THEN Err
                    ELSE Ok([n \in names |-> element(ix(n)).v])
          [] OTHER -> Err

Deserialize(T, w) ==
    CASE T.t = "Value" -> Ok(ToValue(w))
      [] T.t = "String" -> IF w.k = "String" THEN Ok(Str(w.s)) ELSE Err
      [] T.t = "i64" -> deserialize_i64(w)
      [] T.t = "V2_0" -> V2_0_deserialize(w)
      [] T.t = "ErrorCode" -> ErrorCode_deserialize(w)
      [] T.t = "Method" -> Method_deserialize(w)
      [] T.t = "Id" ->
            untagged([i \in DOMAIN Id_variants |-> Id_variant(Id_variants[i], w)])
      [] T.t = "IdReq" ->
            untagged([i \in DOMAIN IdReq_variants |-> IdReq_variant(IdReq_variants[i], w)])
      [] T.t = "Option" ->
            IF w.k = "Null" THEN Ok(OptNone)
            ELSE LET r == Deserialize(T.of, w) IN IF r.ok THEN Ok(Some(r.v)) ELSE Err
      [] T.t \in {"Request", "Success", "Error", "ErrorObject"} -> deserialize_struct(T, w)
      [] T.t = "Response" ->
            LET vs == Response_variants(T.T)
                variant(tag, r) == IF r.ok THEN Ok([Response |-> tag, v |-> r.v]) ELSE Err
            IN  untagged([i \in DOMAIN vs |->
                            variant(vs[i].tag, deserialize_struct(vs[i].ty, w))])

(* serde_json::from_str::<T> and serde_json::from_value::<T> *)
serde_json_from_str(T, s) == IF s = NotJson THEN Err ELSE Deserialize(T, s)
serde_json_from_value(T, v) == Deserialize(T, v)

(***************************************************************************)
(* Serializers: the JSON text serde_json::to_string writes.                *)
(***************************************************************************)

(* #[serde(skip_serializing_if = "id_req_is_notification")] on Request::id *)
skip_serializing_if(T, name, v) ==
    T.t = "Request" /\ name = "id" /\ id_req_is_notification(v)

RECURSIVE Serialize(_, _)

(* #[derive(Serialize)] of a struct: its fields in order, but the skipped *)
serialize_struct(T, self) ==
    LET kept(f) == ~skip_serializing_if(T, f.name, self[f.name])
        fs == SelectSeq(fields(T), kept)
    IN  JObject([i \in DOMAIN fs |-> <<fs[i].name, Serialize(fs[i].ty, self[fs[i].name])>>])

Serialize(T, v) ==
    CASE T.t = "Value" -> v
      [] T.t = "String" -> JString(v.String)
      [] T.t = "i64" -> JInt(v.i64)
      [] T.t = "V2_0" -> JString("2.0")
      [] T.t = "ErrorCode" -> JInt(ErrorCode_value(v))
      [] T.t = "Method" -> JString(v.Method)
      [] T.t = "Id" ->
            (CASE v.Id = "String" -> JString(v.s)
               [] v.Id = "Int" -> JInt(v.i)
               [] v.Id = "Null" -> JNull)
      [] T.t = "IdReq" ->
            (CASE v.IdReq = "String" -> JString(v.s)
               [] v.IdReq = "Int" -> JInt(v.i)
               [] v.IdReq = "Null" -> JNull
               [] v.IdReq = "Notification" -> JNull)
      [] T.t = "Option" -> IF v.some THEN Serialize(T.of, v.v) ELSE JNull
      [] T.t \in {"Request", "Success", "Error", "ErrorObject"} -> serialize_struct(T, v)
      [] T.t = "Response" ->
            IF v.Response = "Ok" THEN serialize_struct(T_Success(T.T), v.v)
            ELSE serialize_struct(T_Error(T_Value), v.v)

(***************************************************************************)
(* Constructors.                                                           *)
(***************************************************************************)

(* Result::Err of a function of the crate *)
Result_Err(e) == [ok |-> FALSE, e |-> e]

(* the text of a serde_json::Error *)
err_to_string == Str("err.to_string()")

(* Error::new *)
Error_new(id, code, message, data) ==
    [jsonrpc |-> V2_0,
     error |-> [code |-> code, message |-> message, data |-> data],
     id |-> id]

(* Success::new, Response::success, Response::error *)
Success_new(id, result) == [jsonrpc |-> V2_0, result |-> result, id |-> id]

Response_success(id, result) == [Response |-> "Ok", v |-> Success_new(id, result)]

Response_error(id, code, message, data) ==
    [Response |-> "Err", v |-> Error_new(id, code, message, data)]

(* Request::new, Request::with_params *)
Request_new(id, method) ==
    [jsonrpc |-> V2_0, method |-> method, params |-> OptNone, id |-> id]

Request_with_params(id, method, params) ==
    [jsonrpc |-> V2_0, method |-> method, params |-> Some(params), id |-> id]

(***************************************************************************)
(* parse_request                                                           *)
(***************************************************************************)
parse_request_IdOfText(M, json) ==
    LET value == serde_json_from_str(T_Value, json)
        id == IF value.ok /\ value.v.k = "Object" /\ Count(value.v.p, "id") = 1
              THEN Deserialize(T_Id, Get(value.v.p, "id")) ELSE Err
        request == IF value.ok THEN serde_json_from_value(T_Request(T_Value, T_Value), value.v)
                   ELSE Err
        method == IF request.ok THEN serde_json_from_value(M, request.v.method) ELSE Err
    IN  IF ~value.ok THEN Result_Err(Error_new(Id_Null, ParseError, err_to_string, OptNone))
        ELSE IF ~request.ok
        THEN Result_Err(Error_new(IF id.ok THEN id.v ELSE Id_Null, InvalidRequest,
                                  err_to_string, OptNone))
        ELSE IF ~method.ok
        THEN Result_Err(Error_new(unwrap_or(to_id(request.v.id), Id_Null), MethodNotFound,
                                  err_to_string, OptNone))
        ELSE Ok([jsonrpc |-> V2_0, method |-> method.v, params |-> request.v.params,
                 id |-> request.v.id])

parse_request_MethodFirst(M, json) ==
    LET value == serde_json_from_str(T_Value, json)
        request == IF value.ok THEN serde_json_from_value(T_Request(M, T_Value), value.v)
                   ELSE Err
        envelope == IF value.ok THEN serde_json_from_value(T_Request(T_Value, T_Value), value.v)
                    ELSE Err
    IN  IF ~value.ok THEN Result_Err(Error_new(Id_Null, ParseError, err_to_string, OptNone))
        ELSE IF request.ok THEN Ok(request.v)
        ELSE IF value.v.k = "Object" /\ Count(value.v.p, "method") = 1
                /\ ~serde_json_from_value(M, Get(value.v.p, "method")).ok
        THEN Result_Err(Error_new(IF envelope.ok THEN unwrap_or(to_id(envelope.v.id), Id_Null)
                                  ELSE Id_Null, MethodNotFound, err_to_string, OptNone))
        ELSE Result_Err(Error_new(Id_Null, InvalidRequest, err_to_string, OptNone))

parse_request(M, json) ==
    LET value == serde_json_from_str(T_Value, json)
    IN  IF ~value.ok
        THEN Result_Err(Error_new(Id_Null, ParseError, err_to_string, OptNone))
        ELSE
        LET request == serde_json_from_value(T_Request(T_Value, T_Value), value.v)
        IN  IF ~request.ok
            THEN Result_Err(Error_new(Id_Null, InvalidRequest, err_to_string, OptNone))
            ELSE
            LET id == request.v.id
                method == serde_json_from_value(M, request.v.method)
            IN  IF ~method.ok
                THEN Result_Err(Error_new(unwrap_or(to_id(id), Id_Null), MethodNotFound,
                                          err_to_string, OptNone))
                ELSE Ok([jsonrpc |-> V2_0, method |-> method.v,
                         params |-> request.v.params, id |-> id])

(***************************************************************************)
(* from_string::from_str: a Response, or why the text is none              *)
(***************************************************************************)

(* Err(DeResultError { hint }): the hint is its fixed words (without the    *)
(* quotation marks around names) and the value it formats, if any          *)
DeResultError(hint) == [ok |-> FALSE, hint |-> hint]

(* Map::remove: the value of the key, if any, and the members left *)
remove(object, key) ==
    IF Count(object, key) = 0 THEN OptNone ELSE Some(Get(object, key))

removed(object, key) ==
    LET other(m) == m[1] # key IN SelectSeq(object, other)

(* keys.sort(): the order of str on the keys the texts are written with *)
KeyOrder ==
    << "but", "code", "data", "detail", "error", "extra", "id", "jsonrpc",
       "message", "method", "params", "result", "type" >>

sort(keys) ==
    LET among(k) == k \in keys IN SelectSeq(KeyOrder, among)

from_str_ExtraKeysFirst(T, s) ==
    LET result == serde_json_from_str(T_Response(T), s)
        result_error == err_to_string
        error == serde_json_from_str(T_Error(T_Value), s)
        value == serde_json_from_str(T_Value, s)
    IN  IF result.ok THEN Ok(Ok(result.v))
        ELSE IF error.ok THEN Ok(Result_Err(error.v))
        ELSE IF ~value.ok THEN DeResultError([hint |-> "Invalid JSON", e |-> err_to_string])
        ELSE IF value.v.k # "Object" THEN DeResultError([hint |-> "Not an object", s |-> s])
        ELSE
        LET jsonrpc == remove(value.v.p, "jsonrpc")
            id == remove(value.v.p, "id")
            object == removed(removed(removed(removed(value.v.p, "jsonrpc"), "id"),
                                      "result"), "error")
        IN  IF ~jsonrpc.some
            THEN DeResultError([hint |-> "jsonrpc attribute does not exist"])
            ELSE IF jsonrpc.v.k # "String"
            THEN DeResultError([hint |-> "jsonrpc attribute is the incorrect value",
                                v |-> jsonrpc])
            ELSE IF ~id.some THEN DeResultError([hint |-> "id does not exist"])
            ELSE IF id.v.k = "Number" /\ ~is_i64(id.v)
            THEN DeResultError([hint |-> "id is a non-i64 number", n |-> id.v])
            ELSE IF id.v.k \notin {"Null", "String", "Number"}
            THEN DeResultError([hint |-> "id is not a valid type", i |-> id.v])
            ELSE IF object # <<>>
            THEN DeResultError([hint |-> "Extra keys are present",
                                keys |-> sort(KeysOf(object))])
            ELSE IF remove(value.v.p, "result").some /\ remove(value.v.p, "error").some
            THEN DeResultError([hint |-> "both result and error fields are present"])
            ELSE DeResultError([hint |-> "Could not deserialize into either Response or Error",
                                cause |-> result_error])

from_str(T, s) ==
    LET result == serde_json_from_str(T_Response(T), s)
        result_error == err_to_string
    IN  IF result.ok THEN Ok(Ok(result.v))
        ELSE
        LET error == serde_json_from_str(T_Error(T_Value), s)
        IN  IF error.ok THEN Ok(Result_Err(error.v))
            ELSE
            LET value == serde_json_from_str(T_Value, s)
            IN  IF ~value.ok
                THEN DeResultError([hint |-> "Invalid JSON", e |-> err_to_string])
                ELSE IF value.v.k # "Object"
                THEN DeResultError([hint |-> "Not an object", s |-> s])
                ELSE
                LET object0 == value.v.p
                    jsonrpc == remove(object0, "jsonrpc")
                    object1 == removed(object0, "jsonrpc")
                IN  (* Some(Value::String(v2_0)) binds v2_0 anew: any string matches *)
                    IF ~jsonrpc.some
                    THEN DeResultError([hint |-> "jsonrpc attribute does not exist"])
                    ELSE IF jsonrpc.v.k # "String"
                    THEN DeResultError([hint |-> "jsonrpc attribute is the incorrect value",
                                        v |-> jsonrpc])
                    ELSE
                    LET id == remove(object1, "id")
                        object2 == removed(object1, "id")
                    IN  IF ~id.some THEN DeResultError([hint |-> "id does not exist"])
                        ELSE IF id.v.k = "Number" /\ ~is_i64(id.v)
                        THEN DeResultError([hint |-> "id is a non-i64 number", n |-> id.v])
                        ELSE IF id.v.k \notin {"Null", "String", "Number"}
                        THEN DeResultError([hint |-> "id is not a valid type", i |-> id.v])
                        ELSE
                        LET result1 == remove(object2, "result")
                            error1 == remove(removed(object2, "result"), "error")
                            object == removed(removed(object2, "result"), "error")
                        IN  IF result1.some /\ error1.some
                            THEN DeResultError(
                                    [hint |-> "both result and error fields are present"])
                            ELSE IF object # <<>>
                            THEN DeResultError([hint |-> "Extra keys are present",
                                                keys |-> sort(KeysOf(object))])
                            ELSE DeResultError(
                                    [hint |-> "Could not deserialize into either Response or Error",
                                     cause |-> result_error])

(***************************************************************************)
(* The inputs.                                                             *)
(***************************************************************************)

(* a member that is absent, or written with one of the values *)
Member(key, values) == {<<>>} \cup {<< <<key, v>> >> : v \in values}

SmallInts == (-MaxInt)..MaxInt

(* integer literals: small ones, the ends of i64 and u64, and beyond them *)
IntLiterals ==
    SmallInts \cup {I64_MIN - 1, I64_MIN, I64_MAX, I64_MAX + 1, U64_MAX, U64_MAX + 1}

Array123 == JArray(<<JInt(1), JInt(2), JInt(3)>>)

IdTexts ==
    {JNull, JString("a"), JFloat("4.5"), JBool(TRUE), Array123}
        \cup {JInt(n) : n \in IntLiterals}

JsonrpcTexts == {JString("2.0"), JString("2"), JFloat("2.0")}

MethodTexts ==
    {JString("One"), JString("Three"), JInt(1), JObject(<< <<"One", JNull>> >>)}

ParamsTexts == {JNull, Array123}

(* the request objects: each member absent or present, a key that is not   *)
(* the struct's, and "id" written a second time                            *)
RequestObjects ==
    {JObject(j \o m \o p \o i \o x \o d) :
        j \in Member("jsonrpc", JsonrpcTexts),
        m \in Member("method", MethodTexts),
        p \in Member("params", ParamsTexts),
        i \in Member("id", IdTexts),
        x \in Member("type", {JString("valid json")}),
        d \in Member("id", {JInt(1)})}

(* the same members written as an array, cut at every length *)
RequestArrays ==
    {JArray(SubSeq(<<j, m, p, i, JNull>>, 1, n)) :
        j \in {JString("2.0"), JString("2")},
        m \in {JString("One"), JString("Three")},
        p \in ParamsTexts,
        i \in {JNull, JInt(1), JFloat("4.5")},
        n \in 0..5}

RequestTexts ==
    {NotJson, JNull, JString("2.0"), JInt(1)} \cup RequestObjects \cup RequestArrays

MethodTypes == {T_String, T_Method, T_Value}

(* typed requests, as Request::new and Request::with_params build them *)
IdReqs ==
    {IdReq_Notification, IdReq_Null, IdReq_String("a")}
        \cup {IdReq_Int(n) : n \in SmallInts \cup {I64_MIN, I64_MAX}}

Requests ==
    {Request_new(id, Str("CreateFoo")) : id \in IdReqs}
        \cup {Request_with_params(id, Str("CreateFoo"), v) : id \in IdReqs, v \in ParamsTexts}

(* the response objects: each member absent or present, a key that is    *)
(* neither struct's, and "result" written a second time                    *)
ErrorObjectTexts ==
    {JObject(c \o m) :
        c \in Member("code", {JInt(-32000), JInt(1)}),
        m \in Member("message", {JString("BadIndexes")})}
        \cup {JObject(<< <<"code", JInt(-32000)>>, <<"message", JString("BadIndexes")>>,
                         <<"data", Array123>> >>),
              JObject(<< <<"code", JInt(-32700)>>, <<"message", JString("Parse error")>>,
                         <<"detail", JNull>> >>),
              JNull}

ResultTexts == {JNull, JInt(1), JString("a"), Array123}

ResponseIdTexts == {JNull, JInt(4), JString("a"), JFloat("4.5")}

ResponseObjects ==
    {JObject(j \o r \o e \o i \o x \o d) :
        j \in Member("jsonrpc", {JString("2.0"), JString("2")}),
        r \in Member("result", ResultTexts),
        e \in Member("error", ErrorObjectTexts),
        i \in Member("id", ResponseIdTexts),
        x \in Member("extra", {JNull}),
        d \in Member("result", {JInt(1)})}

ResponseArrays ==
    {JArray(SubSeq(<<JString("2.0"), b, i, JNull>>, 1, n)) :
        b \in ResultTexts \cup ErrorObjectTexts,
        i \in {JInt(4), JFloat("4.5")},
        n \in 0..4}

ResponseTexts == {NotJson, JNull, JInt(1)} \cup ResponseObjects \cup ResponseArrays

ResultTypes == {T_Value, T_i64, T_Option(T_i64)}

ResponseTypes ==
    {T_Response(T) : T \in ResultTypes} \cup {T_Success(T) : T \in ResultTypes}
        \cup {T_Error(T_Value)}

Ids == {Id_Null, Id_String("a")} \cup {Id_Int(n) : n \in SmallInts}

(* typed responses, as Response::success and Response::error build them *)
Responses ==
    {Response_success(id, I64(n)) : id \in Ids, n \in SmallInts}
        \cup {Response_error(id, ServerError(-32000), Str("BadIndexes"), d) :
                id \in Ids, d \in {OptNone, Some(Array123)}}

(* the error codes: around zero, around each named code, at the ends of    *)
(* the server error band and at the ends of i64                            *)
CodeSamples ==
    SmallInts
        \cup {n + d : n \in {-32700, -32600, -32601, -32602, -32603}, d \in {-1, 0, 1}}
        \cup {-32100, -32099, -32000, -31999, I64_MIN, I64_MAX}

ErrorCodes ==
    {ParseError, InvalidRequest, MethodNotFound, InvalidParams, InternalError}
        \cup {ServerError(n) : n \in CodeSamples}

(* the objects from_str inspects: "jsonrpc" and "id" absent, right and    *)
(* wrong in each way, "result" and "error" each absent or present, and     *)
(* keys of neither struct, written out of order                            *)
InspectedObjects ==
    {JObject(j \o i \o r \o e \o x \o y) :
        j \in Member("jsonrpc", {JString("2.0"), JString("2"), JFloat("2.0"), JNull}),
        i \in Member("id", {JNull, JInt(4), JString("a"), JFloat("4.5"), JInt(I64_MAX + 1),
                            JInt(U64_MAX + 1), JBool(TRUE), Array123}),
        r \in Member("result", {JInt(1), JString("a")}),
        e \in Member("error",
                {JObject(<< <<"code", JInt(-32000)>>, <<"message", JString("BadIndexes")>>,
                            <<"data", Array123>> >>),
                 JObject(<< <<"code", JInt(1)>>, <<"message", JString("BadIndexes")>> >>),
                 JNull}),
        x \in Member("type", {JString("valid json")}),
        y \in Member("extra", {JNull})}

FromStringTexts == ResponseTexts \cup InspectedObjects

(* texts read as the version marker, and texts read as an Id *)
V2_0Texts ==
    {NotJson, JString("2.0"), JString("2"), JString("2.0.0"), JString(""),
     JFloat("2.0"), JInt(2), JNull, JBool(TRUE), JArray(<<JString("2.0")>>),
     JObject(<< <<"jsonrpc", JString("2.0")>> >>)}

IdValueTexts ==
    IdTexts \cup {NotJson, JFloat("1.0"), JString(""), JString("1"), JBool(FALSE),
                  JArray(<<>>), JObject(<<>>), JObject(<< <<"id", JInt(1)>> >>)}

(***************************************************************************)
(* The state: a call of one of the crate's functions.  text is the JSON    *)
(* text it is given, arg the typed value, ty the type it works on; pc      *)
(* lists the functions applied so far and ret their results.               *)
(***************************************************************************)
Last(s) == s[Len(s)]

InitRequestText ==
    /\ text \in RequestTexts
    /\ arg = None
    /\ ty \in {T_Request(M, T_Value) : M \in MethodTypes}

InitRequest ==
    /\ text = None
    /\ arg \in Requests
    /\ ty = T_Request(T_String, T_Value)

InitResponseText ==
    /\ text \in ResponseTexts
    /\ arg = None
    /\ ty \in ResponseTypes

InitResponse ==
    /\ text = None
    /\ arg \in Responses
    /\ ty = T_Response(T_i64)

InitErrorCodeText ==
    /\ text \in {JInt(n) : n \in CodeSamples}
    /\ arg = None
    /\ ty = T_ErrorCode

InitErrorCode ==
    /\ text = None
    /\ arg \in ErrorCodes
    /\ ty = T_ErrorCode

InitI64 ==
    /\ text = None
    /\ arg \in {I64(n) : n \in CodeSamples}
    /\ ty = T_i64

InitV2_0Text ==
    /\ text \in V2_0Texts
    /\ arg = None
    /\ ty = T_V2_0

InitV2_0 ==
    /\ text = None
    /\ arg = V2_0
    /\ ty = T_V2_0

InitIdText ==
    /\ text \in IdValueTexts
    /\ arg = None
    /\ ty = T_Id

InitId ==
    /\ text = None
    /\ arg \in Ids \cup {Id_Int(I64_MIN), Id_Int(I64_MAX)}
    /\ ty = T_Id

InitFromStringText ==
    /\ text \in FromStringTexts
    /\ arg = None
    /\ ty \in {T_Response(T) : T \in ResultTypes}

(* jrpc::parse_request::<M>(json) *)
ParseRequest ==
    /\ pc = <<>>
    /\ text # None
    /\ ty.t = "Request"
    /\ ret' = <<parse_request(ty.M, text)>>
    /\ pc' = <<"parse_request">>
    /\ UNCHANGED <<text, arg, ty>>

(* serde_json::from_str::<ty>: of the text given, or of the text just written *)
FromStr ==
    /\ IF pc = <<>> THEN text # None ELSE Last(pc) = "to_string"
    /\ ret' = Append(ret, serde_json_from_str(ty, IF pc = <<>> THEN text ELSE Last(ret)))
    /\ pc' = Append(pc, "from_str")
    /\ UNCHANGED <<text, arg, ty>>

(* serde_json::to_string: of the value given, or of the value just made *)
ToJsonString ==
    /\ IF pc = <<>> THEN arg # None ELSE Last(pc) = "from"
    /\ ret' = Append(ret, Serialize(ty, IF pc = <<>> THEN arg ELSE Last(ret)))
    /\ pc' = Append(pc, "to_string")
    /\ UNCHANGED <<text, arg, ty>>

(* ErrorCode::from(v) *)
ErrorCodeFrom ==
    /\ pc = <<>>
    /\ arg # None
    /\ ty = T_i64
    /\ ret' = <<ErrorCode_from(arg.i64)>>
    /\ pc' = <<"from">>
    /\ ty' = T_ErrorCode
    /\ UNCHANGED <<text, arg>>

(* ErrorCode::is_valid(&self): of the code given, or of the code just made *)
IsValid ==
    /\ IF pc = <<>> THEN arg # None /\ ty = T_ErrorCode ELSE Last(pc) = "from"
    /\ ret' = Append(ret, is_valid(IF pc = <<>> THEN arg ELSE Last(ret)))
    /\ pc' = Append(pc, "is_valid")
    /\ UNCHANGED <<text, arg, ty>>

(* from_string::from_str::<T>(s) *)
FromString ==
    /\ pc = <<>>
    /\ text # None
    /\ ty.t = "Response"
    /\ ret' = <<from_str(ty.T, text)>>
    /\ pc' = <<"from_string">>
    /\ UNCHANGED <<text, arg, ty>>

(* the Request functions *)
InitForRequest == pc = <<>> /\ ret = <<>> /\ (InitRequestText \/ InitRequest)
NextForRequest == ParseRequest \/ FromStr \/ ToJsonString
SpecRequest == InitForRequest /\ [][NextForRequest]_vars

(* the Response functions *)
InitForResponse == pc = <<>> /\ ret = <<>> /\ (InitResponseText \/ InitResponse)
NextForResponse == FromStr \/ ToJsonString
SpecResponse == InitForResponse /\ [][NextForResponse]_vars

(* the ErrorCode functions *)
InitForErrorCode ==
    pc = <<>> /\ ret = <<>> /\ (InitErrorCodeText \/ InitErrorCode \/ InitI64)
NextForErrorCode == ErrorCodeFrom \/ FromStr \/ ToJsonString \/ IsValid
SpecErrorCode == InitForErrorCode /\ [][NextForErrorCode]_vars

(* the codecs of the version marker and of Id, alone and inside a Request *)
InitForCodec ==
    /\ pc = <<>>
    /\ ret = <<>>
    /\ \/ InitV2_0Text
       \/ InitV2_0
       \/ InitIdText
       \/ InitId
       \/ InitRequestText
       \/ InitRequest
NextForCodec == FromStr \/ ToJsonString
SpecCodec == InitForCodec /\ [][NextForCodec]_vars

(* the diagnostic decoder of Response *)
InitForFromString == pc = <<>> /\ ret = <<>> /\ InitFromStringText
NextForFromString == FromString
SpecFromString == InitForFromString /\ [][NextForFromString]_vars

(* every function *)
Init ==
    /\ pc = <<>>
    /\ ret = <<>>
    /\ \/ InitRequestText
       \/ InitRequest
       \/ InitResponseText
       \/ InitResponse
       \/ InitErrorCodeText
       \/ InitErrorCode
       \/ InitI64
       \/ InitV2_0Text
       \/ InitV2_0
       \/ InitIdText
       \/ InitId
       \/ InitFromStringText

Next ==
    \/ ParseRequest
    \/ FromStr
    \/ ToJsonString
    \/ ErrorCodeFrom
    \/ IsValid
    \/ FromString

Spec == Init /\ [][Next]_vars

(***************************************************************************)
(* Claims about parse_request.                                             *)
(***************************************************************************)

(* the three stages of parse_request, each taken on its own *)
StageJson == serde_json_from_str(T_Value, text)
StageEnvelope ==
    IF StageJson.ok THEN serde_json_from_value(T_Request(T_Value, T_Value), StageJson.v)
    ELSE Err
StageMethod ==
    IF StageEnvelope.ok THEN serde_json_from_value(ty.M, StageEnvelope.v.method) ELSE Err

Returned(code) == ~ret[1].ok /\ ret[1].e.error.code = code

(* C1: parse_request answers by the first stage that fails, in the order   *)
(* JSON parse, Request envelope with any method, method as M: ParseError   *)
(* iff the text is no JSON, InvalidRequest iff it is JSON but no envelope, *)
(* MethodNotFound iff the envelope is valid and its method is no M, and a  *)
(* Request iff all three pass; it answers with no other code.              *)
C1_FirstFailingStage ==
    pc = <<"parse_request">> =>
        /\ Returned(ParseError) <=> ~StageJson.ok
        /\ Returned(InvalidRequest) <=> (StageJson.ok /\ ~StageEnvelope.ok)
        /\ Returned(MethodNotFound) <=> (StageEnvelope.ok /\ ~StageMethod.ok)
        /\ ret[1].ok <=> StageMethod.ok
        /\ ret[1].ok =>
              /\ ret[1].v.method = StageMethod.v
              /\ ret[1].v.jsonrpc = V2_0
        /\ ~ret[1].ok =>
              ret[1].e.error.code \in {ParseError, InvalidRequest, MethodNotFound}

(* an object with no "jsonrpc" whose method is no variant of Method is     *)
(* answered InvalidRequest, the earlier stage                              *)
C1_Witness ==
    /\ pc = <<"parse_request">>
    /\ ty.M = T_Method
    /\ text.k = "Object"
    /\ Count(text.p, "jsonrpc") = 0
    /\ Count(text.p, "method") = 1
    /\ Get(text.p, "method") = JString("Three")
    /\ Returned(InvalidRequest)

(* C2, as claimed: every MethodNotFound error carries the id of the        *)
(* envelope whose method failed to decode.                                 *)
C2_CarriesEnvelopeId ==
    (pc = <<"parse_request">> /\ Returned(MethodNotFound)) =>
        IdReq_from(ret[1].e.id) = StageEnvelope.v.id

(* C2, amended: a MethodNotFound error carries the envelope's id when the  *)
(* envelope has one (a string, an integer or null), and Null when the      *)
(* envelope has no id (a notification).                                    *)
C2_EnvelopeIdOrNull ==
    (pc = <<"parse_request">> /\ Returned(MethodNotFound)) =>
        IF StageEnvelope.v.id = IdReq_Notification
        THEN ret[1].e.id = Id_Null
        ELSE IdReq_from(ret[1].e.id) = StageEnvelope.v.id

(* a request with id "a" and an unknown method: the error carries "a" *)
C2_Witness ==
    /\ pc = <<"parse_request">>
    /\ Returned(MethodNotFound)
    /\ text.k = "Object"
    /\ Count(text.p, "id") = 1
    /\ Get(text.p, "id") = JString("a")
    /\ ret[1].e.id = Id_String("a")

(* C3: a ParseError or InvalidRequest error has id Null, whatever id the   *)
(* text holds.                                                             *)
C3_NullIdBeforeEnvelope ==
    (pc = <<"parse_request">> /\ (Returned(ParseError) \/ Returned(InvalidRequest))) =>
        ret[1].e.id = Id_Null

(* an object with id "a" and a wrong "jsonrpc": InvalidRequest, id Null *)
C3_Witness ==
    /\ pc = <<"parse_request">>
    /\ Returned(InvalidRequest)
    /\ text.k = "Object"
    /\ Count(text.p, "id") = 1
    /\ Get(text.p, "id") = JString("a")
    /\ ret[1].e.id = Id_Null

(***************************************************************************)
(* Claims about the id of a Request on the wire.                           *)
(***************************************************************************)

(* C4: the text of a Request has an "id" member iff its id is no           *)
(* Notification, and then the member is the plain JSON value of the id: a  *)
(* string, an integer, or null for Null.                                   *)
C4_IdKeyIffNotNotification ==
    (pc = <<"to_string">> /\ ty.t = "Request") =>
        LET out == ret[1].p
        IN  /\ Count(out, "id") = (IF arg.id = IdReq_Notification THEN 0 ELSE 1)
            /\ arg.id.IdReq = "String" => Get(out, "id") = JString(arg.id.s)
            /\ arg.id.IdReq = "Int" => Get(out, "id") = JInt(arg.id.i)
            /\ arg.id.IdReq = "Null" => Get(out, "id") = JNull

(* a Notification was written, and the text has no "id" *)
C4_Witness ==
    /\ pc = <<"to_string">>
    /\ ty.t = "Request"
    /\ arg.id = IdReq_Notification
    /\ "id" \notin KeysOf(ret[1].p)
    /\ "method" \in KeysOf(ret[1].p)

(* the text a from_str read: the one given, or the one just written *)
TextRead == IF Len(pc) = 1 THEN text ELSE ret[Len(ret) - 1]

(* C5: a Request object decodes to id Notification iff it has no "id" key, *)
(* and to id Null iff its "id" is null: the two are never the same IdReq.  *)
C5_AbsentIsNotNull ==
    (/\ pc # <<>>
     /\ Last(pc) = "from_str"
     /\ ty.t = "Request"
     /\ TextRead.k = "Object"
     /\ Last(ret).ok) =>
        /\ Last(ret).v.id = IdReq_Notification <=> Count(TextRead.p, "id") = 0
        /\ Last(ret).v.id = IdReq_Null <=>
              (Count(TextRead.p, "id") = 1 /\ Get(TextRead.p, "id") = JNull)

(* an object with "id": null was decoded, to id Null *)
C5_Witness ==
    /\ pc = <<"from_str">>
    /\ ty.t = "Request"
    /\ text.k = "Object"
    /\ Count(text.p, "id") = 1
    /\ Get(text.p, "id") = JNull
    /\ ret[1].ok
    /\ ret[1].v.id = IdReq_Null

(***************************************************************************)
(* Claims about Response, Success and Error.                               *)
(***************************************************************************)
Has(key) == Count(text.p, key) > 0

(* C6: an object decodes as Response<T>, for every T, only if it has       *)
(* exactly one of the keys "result" and "error".                           *)
C6_ExactlyOneOfResultAndError ==
    (pc = <<"from_str">> /\ ty.t = "Response" /\ text.k = "Object" /\ ret[1].ok) =>
        (Has("result") /\ ~Has("error")) \/ (Has("error") /\ ~Has("result"))

(* C7: an object with a key other than "jsonrpc", "result" and "id" does   *)
(* not decode as Success, and one with a key other than "jsonrpc", "error" *)
(* and "id" does not decode as Error.                                      *)
C7_UnknownKeyRejected ==
    (pc = <<"from_str">> /\ text.k = "Object") =>
        /\ (ty.t = "Success" /\ ~(KeysOf(text.p) \subseteq {"jsonrpc", "result", "id"}))
              => ~ret[1].ok
        /\ (ty.t = "Error" /\ ~(KeysOf(text.p) \subseteq {"jsonrpc", "error", "id"}))
              => ~ret[1].ok

(* an object that decodes as Success once its "extra" member is taken away *)
(* was rejected with it                                                    *)
C7_Witness ==
    /\ pc = <<"from_str">>
    /\ ty.t = "Success"
    /\ text.k = "Object"
    /\ Has("extra")
    /\ LET known(m) == m[1] # "extra"
       IN  serde_json_from_str(ty, JObject(SelectSeq(text.p, known))).ok
    /\ ~ret[1].ok

(***************************************************************************)
(* Claims about the numeric mapping of ErrorCode.                          *)
(***************************************************************************)

(* C8: for every i64 n, ErrorCode::from(n) is written as the integer n,    *)
(* and reading that back succeeds and gives ErrorCode::from(n) again.      *)
C8_FromEncodeDecode ==
    /\ pc = <<"from", "to_string">> => ret[2] = JInt(arg.i64)
    /\ pc = <<"from", "to_string", "from_str">> => ret[3] = Ok(ErrorCode_from(arg.i64))

(* C9: every ErrorCode is written as one integer, no other ErrorCode is    *)
(* written as the same integer, and reading it back gives the ErrorCode.   *)
C9_LosslessBothWays ==
    (pc # <<>> /\ pc[1] = "to_string" /\ ty = T_ErrorCode) =>
        /\ ret[1].k = "Number"
        /\ ret[1].lit = "int"
        /\ \A c \in ErrorCodes : c # arg => Serialize(T_ErrorCode, c) # ret[1]
        /\ Len(pc) = 2 => ret[2] = Ok(arg)

(* C10: reading an error code from any integer n of the i64 range never    *)
(* fails: the named variant for the five constants, ServerError(n) for     *)
(* every other n.                                                          *)
C10_DecodeNeverFails ==
    (/\ pc = <<"from_str">>
     /\ ty = T_ErrorCode
     /\ text.k = "Number"
     /\ text.lit = "int"
     /\ text.v >= I64_MIN
     /\ text.v <= I64_MAX) =>
        ret[1] = Ok(CASE text.v = -32700 -> ParseError
                      [] text.v = -32600 -> InvalidRequest
                      [] text.v = -32601 -> MethodNotFound
                      [] text.v = -32602 -> InvalidParams
                      [] text.v = -32603 -> InternalError
                      [] OTHER -> ServerError(text.v))

(* C11: is_valid is true of ServerError(n) iff -32099 <= n <= -32000, and  *)
(* true of each of the five named codes.                                   *)
C11_ValidIffInBand ==
    (pc = <<"is_valid">>) =>
        /\ arg.code = "ServerError" => (ret[1] <=> (arg.n >= -32099 /\ arg.n <= -32000))
        /\ arg.code # "ServerError" => ret[1]
        /\ arg \in {ParseError, InvalidRequest, MethodNotFound, InvalidParams,
                    InternalError} => ret[1]

(* the upper end of the band, ServerError(-32000), was found valid *)
C11_Witness ==
    /\ pc = <<"is_valid">>
    /\ arg = ServerError(-32000)
    /\ ret[1] = TRUE

(***************************************************************************)
(* Claims about the codecs of the version marker and of Id.                *)
(***************************************************************************)

(* C12: the version marker is always written as the string "2.0", alone    *)
(* and as the "jsonrpc" member of a Request; reading it succeeds iff the   *)
(* text is exactly the string "2.0", and a Request whose "jsonrpc" is      *)
(* absent or anything else does not decode.                                *)
C12_ExactlyTwoPointZero ==
    /\ (pc # <<>> /\ pc[1] = "to_string" /\ ty = T_V2_0) => ret[1] = JString("2.0")
    /\ (pc # <<>> /\ pc[1] = "to_string" /\ ty.t = "Request") =>
            (Count(ret[1].p, "jsonrpc") = 1 /\ Get(ret[1].p, "jsonrpc") = JString("2.0"))
    /\ (pc = <<"from_str">> /\ ty = T_V2_0) => (ret[1].ok <=> text = JString("2.0"))
    /\ (pc = <<"from_str">> /\ ty.t = "Request" /\ text.k = "Object" /\ ret[1].ok) =>
            (Count(text.p, "jsonrpc") = 1 /\ Get(text.p, "jsonrpc") = JString("2.0"))
    /\ (pc = <<"from_str">> /\ ty.t = "Request" /\ text.k = "Array" /\ ret[1].ok) =>
            (Len(text.a) >= 1 /\ text.a[1] = JString("2.0"))

(* the string "2.0.0" was read as the version marker, and rejected *)
C12_Witness ==
    /\ pc = <<"from_str">>
    /\ ty = T_V2_0
    /\ text = JString("2.0.0")
    /\ ~ret[1].ok

(* C13: reading a JSON value as Id gives String(s) for a string s, Int(n)  *)
(* for an integer literal n of the i64 range, Null for null, and fails for *)
(* every other text; a number written with a fraction is never an Int.     *)
C13_IdOfJsonValue ==
    (pc = <<"from_str">> /\ ty = T_Id) =>
        /\ ret[1] = (CASE text.k = "String" -> Ok(Id_String(text.s))
                       [] text.k = "Number" /\ text.lit = "int"
                             /\ text.v >= I64_MIN /\ text.v <= I64_MAX ->
                                Ok(Id_Int(text.v))
                       [] text.k = "Null" -> Ok(Id_Null)
                       [] OTHER -> Err)
        /\ (text.k = "Number" /\ text.lit = "float") => ~ret[1].ok

(* the number 4.5 was read as an Id, and rejected *)
C13_Witness ==
    /\ pc = <<"from_str">>
    /\ ty = T_Id
    /\ text = JFloat("4.5")
    /\ ~ret[1].ok

(***************************************************************************)
(* Claims about the params of a Request on the wire.                       *)
(***************************************************************************)

StageResponse == serde_json_from_str(ty, text)
StageError == serde_json_from_str(T_Error(T_Value), text)

(* the value of a key of the object read *)
ValueOf(key) == Get(ToValue(text).p, key)

Hint(words) == DeResultError([hint |-> words])

IdIsI64OrStringOrNull ==
    \/ ValueOf("id").k \in {"Null", "String"}
    \/ /\ ValueOf("id").k = "Number"
       /\ ValueOf("id").lit = "int"
       /\ ValueOf("id").v >= I64_MIN
       /\ ValueOf("id").v <= I64_MAX

(* C15: for an object that neither stage decodes, a missing "jsonrpc" is   *)
(* answered "jsonrpc attribute does not exist", and a "jsonrpc" that is    *)
(* anything but the string "2.0", another string included, is answered     *)
(* "jsonrpc attribute is the incorrect value" with the value.              *)
C15_JsonrpcDiagnostics ==
    (/\ pc = <<"from_string">>
     /\ text.k = "Object"
     /\ ~StageResponse.ok
     /\ ~StageError.ok) =>
        /\ ~Has("jsonrpc") => ret[1] = Hint("jsonrpc attribute does not exist")
        /\ (Has("jsonrpc") /\ ValueOf("jsonrpc") # JString("2.0")) =>
                ret[1] = DeResultError([hint |-> "jsonrpc attribute is the incorrect value",
                                        v |-> Some(ValueOf("jsonrpc"))])

(* C16, as claimed: every object with both a "result" and an "error" key   *)
(* is answered "both result and error fields are present" and nothing else. *)
C16_AlwaysBothDiagnostic ==
    (pc = <<"from_string">> /\ text.k = "Object" /\ Has("result") /\ Has("error")) =>
        ret[1] = Hint("both result and error fields are present")

(* C16, amended: every object with both keys fails; the answer is "both    *)
(* result and error fields are present" when its "jsonrpc" is the string   *)
(* "2.0" and its "id" is null, a string or an i64 number, and otherwise    *)
(* that answer or the one of the jsonrpc or id check that fails.           *)
C16_BothAfterJsonrpcAndId ==
    (pc = <<"from_string">> /\ text.k = "Object" /\ Has("result") /\ Has("error")) =>
        IF ret[1].ok THEN FALSE
        ELSE IF /\ Has("jsonrpc")
                /\ ValueOf("jsonrpc") = JString("2.0")
                /\ Has("id")
                /\ IdIsI64OrStringOrNull
        THEN ret[1] = Hint("both result and error fields are present")
        ELSE ret[1].hint.hint \in
                {"both result and error fields are present",
                 "jsonrpc attribute does not exist",
                 "jsonrpc attribute is the incorrect value",
                 "id does not exist",
                 "id is a non-i64 number",
                 "id is not a valid type"}

(* an object with "jsonrpc": "2.0", an integer id and both keys was read,  *)
(* and answered with the diagnostic of the two keys                        *)
C16_Witness ==
    /\ pc = <<"from_string">>
    /\ text.k = "Object"
    /\ Has("result")
    /\ Has("error")
    /\ Has("jsonrpc")
    /\ ValueOf("jsonrpc") = JString("2.0")
    /\ Has("id")
    /\ ValueOf("id") = JInt(4)
    /\ ret[1] = Hint("both result and error fields are present")

(* the diagnostic of the first check that fails, in the order claimed *)
FirstFailingCheck ==
    IF text = NotJson THEN "Invalid JSON"
    ELSE IF text.k # "Object" THEN "Not an object"
    ELSE IF ~Has("jsonrpc") THEN "jsonrpc attribute does not exist"
    ELSE IF ValueOf("jsonrpc") # JString("2.0")
    THEN "jsonrpc attribute is the incorrect value"
    ELSE IF ~Has("id") THEN "id does not exist"
    ELSE IF ValueOf("id").k = "Number" /\ ~IdIsI64OrStringOrNull
    THEN "id is a non-i64 number"
    ELSE IF ~IdIsI64OrStringOrNull THEN "id is not a valid type"
    ELSE IF Has("result") /\ Has("error") THEN "both result and error fields are present"
    ELSE IF ~(KeysOf(text.p) \subseteq {"jsonrpc", "id", "result", "error"})
    THEN "Extra keys are present"
    ELSE "Could not deserialize into either Response or Error"

(* C17: when from_str decodes neither a Response nor an Error, its one     *)
(* diagnostic is that of the first failing check in the order: no JSON,    *)
(* no object, jsonrpc missing or wrong, id missing or no i64 number or of  *)
(* another type, both result and error, other keys (listed sorted), and    *)
(* the fallback otherwise.                                                 *)
C17_FirstFailingCheckReported ==
    (pc = <<"from_string">> /\ ~ret[1].ok) =>
        /\ ret[1].hint.hint = FirstFailingCheck
        /\ ret[1].hint.hint = "Extra keys are present" =>
                ret[1].hint.keys =
                    sort(KeysOf(text.p) \ {"jsonrpc", "id", "result", "error"})

(* C18: when the text does not decode as Response<T> it does not decode as *)
(* Error<Value> either, for every T: from_str never returns the second     *)
(* stage's Ok(Err(e)), and an object that is an Error envelope is returned *)
(* by the first stage as the Response it is.                               *)
C18_SecondStageNeverDecides ==
    (pc = <<"from_string">>) =>
        /\ ~StageResponse.ok => ~StageError.ok
        /\ ret[1].ok => (StageResponse.ok /\ ret[1] = Ok(Ok(StageResponse.v)))
        /\ (StageError.ok /\ text.k = "Object") =>
                ret[1] = Ok(Ok([Response |-> "Err", v |-> StageError.v]))

(* an Error envelope whose data is no T was read as Response<i64>, and     *)
(* returned by the first stage                                             *)
C18_Witness ==
    /\ pc = <<"from_string">>
    /\ ty = T_Response(T_i64)
    /\ text.k = "Object"
    /\ StageError.ok
    /\ StageError.v.error.data = Some(Array123)
    /\ ret[1].ok
    /\ ret[1].v.v.Response = "Err"

====
